---- MODULE Spec2Model ----
\* A model of the personal library manager (src/main.py): the JSON-backed
\* record store (load_library, save_library, add_book, remove_book,
\* search_books, calculate_statistics) and the Streamlit script run that
\* reloads the library, runs one menu handler and ends.
\*
\* Text is a sequence of one-character strings, so that str.lower() and the
\* substring test are computed, not assumed.  The storage file is a sequence
\* of JSON tokens (what json.dump writes and the json scanner reads, white
\* space dropped), so that saving and loading are two different conversions.
EXTENDS Integers, Sequences, FiniteSets, TLC

\* ---------------------------------------------------------------- bounds
\* The longest library a run of the model builds (Add Book is not offered
\* beyond it).
MaxLen == 3

\* ------------------------------------------------------------------ text
\* str.lower() on one character of the model's alphabet {D, d, U, u}.
Lower(c) ==
    CASE c = "D" -> "d"
      [] c = "U" -> "u"
      [] OTHER -> c

\* str.lower()
str_lower(s) == [i \in 1..Len(s) |-> Lower(s[i])]

\* Python's `sub in s` on str: sub occurs in s as a contiguous run.
str_in(sub, s) ==
    \E k \in 0..(Len(s) - Len(sub)) : SubSeq(s, k + 1, k + Len(sub)) = sub

\* ----------------------------------------------------------- book records
\* The keys of a book dict (add_book's dict literal).
K_title == <<"t", "i", "t", "l", "e">>
K_author == <<"a", "u", "t", "h", "o", "r">>
K_year == <<"y", "e", "a", "r">>
K_genre == <<"g", "e", "n", "r", "e">>
K_read == <<"r", "e", "a", "d">>

\* The dict add_book appends.
book_dict(title, author, year, genre, read_status) ==
    (K_title :> title) @@ (K_author :> author) @@ (K_year :> year)
        @@ (K_genre :> genre) @@ (K_read :> read_status)

\* ------------------------------------------------------------ JSON tokens
Punct(c) == [t |-> c, s |-> <<>>, n |-> 0]
StrTok(s) == [t |-> "string", s |-> s, n |-> 0]
NumTok(n) == [t |-> "number", s |-> <<>>, n |-> n]

\* json.dump of one book dict: its items in insertion order, a str as a
\* string, an int as a number, a bool as true / false.
dump_dict(b) ==
    << Punct("{"),
       StrTok(K_title), Punct(":"), StrTok(b[K_title]), Punct(","),
       StrTok(K_author), Punct(":"), StrTok(b[K_author]), Punct(","),
       StrTok(K_year), Punct(":"), NumTok(b[K_year]), Punct(","),
       StrTok(K_genre), Punct(":"), StrTok(b[K_genre]), Punct(","),
       StrTok(K_read), Punct(":"),
       IF b[K_read] THEN Punct("true") ELSE Punct("false"),
       Punct("}") >>

RECURSIVE dump_items(_)
dump_items(l) ==
    IF Len(l) = 0 THEN <<>>
    ELSE IF Len(l) = 1 THEN dump_dict(l[1])
    ELSE dump_dict(l[1]) \o <<Punct(",")>> \o dump_items(Tail(l))

\* json.dump(library, file, indent=4): the list's text.
json_dump(l) == <<Punct("[")>> \o dump_items(l) \o <<Punct("]")>>

\* The decoder's failure (json.JSONDecodeError).
DecodeError == [ok |-> FALSE, val |-> <<>>, pos |-> 0]

\* A variant of scan_scalar that takes any word for true.
scan_scalar_truthy(tok) ==
    CASE tok.t = "string" -> [ok |-> TRUE, val |-> tok.s]
      [] tok.t = "number" -> [ok |-> TRUE, val |-> tok.n]
      [] tok.t \in {"true", "false"} -> [ok |-> TRUE, val |-> TRUE]
      [] OTHER -> [ok |-> FALSE, val |-> FALSE]

\* A member's value: a string, a number, true or false.
scan_scalar(tok) ==
    CASE tok.t = "string" -> [ok |-> TRUE, val |-> tok.s]
      [] tok.t = "number" -> [ok |-> TRUE, val |-> tok.n]
      [] tok.t = "true" -> [ok |-> TRUE, val |-> TRUE]
      [] tok.t = "false" -> [ok |-> TRUE, val |-> FALSE]
      [] OTHER -> [ok |-> FALSE, val |-> FALSE]

\* The members of an object from the key at pos on; d holds the pairs read
\* so far (a repeated key keeps its last value).
RECURSIVE parse_members(_, _, _)
parse_members(toks, pos, d) ==
    IF pos + 3 > Len(toks) THEN DecodeError
    ELSE IF toks[pos].t # "string" \/ toks[pos + 1].t # ":" THEN DecodeError
    ELSE LET v == scan_scalar(toks[pos + 2])
             d2 == (toks[pos].s :> v.val) @@ d
         IN  IF ~v.ok THEN DecodeError
             ELSE IF toks[pos + 3].t = "}"
                  THEN [ok |-> TRUE, val |-> d2, pos |-> pos + 4]
             ELSE IF toks[pos + 3].t = ","
                  THEN parse_members(toks, pos + 4, d2)
             ELSE DecodeError

\* An object starting at pos.
parse_object(toks, pos) ==
    IF pos + 1 > Len(toks) \/ toks[pos].t # "{" THEN DecodeError
    ELSE IF toks[pos + 1].t = "}"
         THEN [ok |-> TRUE, val |-> <<>>, pos |-> pos + 2]
    ELSE parse_members(toks, pos + 1, <<>>)

\* The items of an array from the item at pos on; acc holds the items read.
RECURSIVE parse_items(_, _, _)
parse_items(toks, pos, acc) ==
    LET o == parse_object(toks, pos)
    IN  IF ~o.ok \/ o.pos > Len(toks) THEN DecodeError
        ELSE IF toks[o.pos].t = "]"
             THEN [ok |-> TRUE, val |-> Append(acc, o.val), pos |-> o.pos + 1]
        ELSE IF toks[o.pos].t = ","
             THEN parse_items(toks, o.pos + 1, Append(acc, o.val))
        ELSE DecodeError

\* json.load on the file's text: one array of objects and nothing after it.
\* (Texts whose top-level value is not an array, or whose members are not
\* scalars, are outside the contents this model starts from.)
json_load(toks) ==
    IF Len(toks) < 2 \/ toks[1].t # "[" THEN DecodeError
    ELSE LET a == IF toks[2].t = "]"
                  THEN [ok |-> TRUE, val |-> <<>>, pos |-> 3]
                  ELSE parse_items(toks, 2, <<>>)
         IN  IF a.ok /\ a.pos = Len(toks) + 1 THEN a ELSE DecodeError

\* ---------------------------------------------------------- storage file
\* The file named LIBRARY_FILE: absent, holding JSON tokens, or holding
\* bytes that are not text in the encoding open(..., "r") decodes with.
Absent == [kind |-> "absent", text |-> <<>>]
Undecodable == [kind |-> "bytes", text |-> <<>>]
TextFile(toks) == [kind |-> "text", text |-> toks]

VARIABLES file, library, pc, menu, ev, last_save, dirty
vars == <<file, library, pc, menu, ev, last_save, dirty>>

\* ------------------------------------------------------------- the store
\* The exception that opening and reading the file raises, or "none":
\* open() on a missing file, file.read() on undecodable bytes, the decoder
\* on text that is not JSON.
read_exception(f) ==
    CASE f.kind = "absent" -> "FileNotFoundError"
      [] f.kind = "bytes" -> "UnicodeDecodeError"
      [] ~json_load(f.text).ok -> "JSONDecodeError"
      [] OTHER -> "none"

\* The exceptions load_library's except clause names.
Caught == {"FileNotFoundError", "JSONDecodeError"}

\* load_library(): the decoded list, [] on a caught exception; any other
\* exception leaves the function.
load_library(f) ==
    LET exc == read_exception(f)
    IN  IF exc = "none" THEN [raised |-> "none", val |-> json_load(f.text).val]
        ELSE IF exc \in Caught THEN [raised |-> "none", val |-> <<>>]
        ELSE [raised |-> exc, val |-> <<>>]

\* A variant of save_library that writes the list as it was before its last
\* record was appended.
save_library_stale(l) == TextFile(json_dump(SubSeq(l, 1, Len(l) - 1)))

\* save_library(library): open(..., "w") replaces the file's content by the
\* dump of the whole list.
save_library(l) == TextFile(json_dump(l))

\* A variant of add_book that skips a title the library already holds.
add_book_unique(l, title, author, year, genre, read_status) ==
    IF \E i \in 1..Len(l) : l[i][K_title] = title
    THEN [library |-> l, file |-> save_library(l), saved |-> TRUE]
    ELSE LET l2 == Append(l, book_dict(title, author, year, genre, read_status))
         IN  [library |-> l2, file |-> save_library(l2), saved |-> TRUE]

\* add_book: append the new dict, then save.
add_book(l, title, author, year, genre, read_status) ==
    LET l2 == Append(l, book_dict(title, author, year, genre, read_status))
    IN  [library |-> l2, file |-> save_library(l2), saved |-> TRUE]

\* list.remove(x): drop the first element equal to x.
list_remove(l, x) ==
    LET j == CHOOSE i \in 1..Len(l) :
                 l[i] = x /\ \A k \in 1..(i - 1) : l[k] # x
    IN  SubSeq(l, 1, j - 1) \o SubSeq(l, j + 1, Len(l))

\* A variant of remove_book that removes every book of the title.
remove_book_all(l, f, title) ==
    LET keep(b) == str_lower(b[K_title]) # str_lower(title)
        l2 == SelectSeq(l, keep)
    IN  IF l2 = l
        THEN [library |-> l, file |-> f, saved |-> FALSE, ret |-> FALSE]
        ELSE [library |-> l2, file |-> save_library(l2), saved |-> TRUE, ret |-> TRUE]

\* A variant of remove_book that saves whether or not a book was found.
remove_book_saves(l, f, title) ==
    LET hits == {i \in 1..Len(l) : str_lower(l[i][K_title]) = str_lower(title)}
        l2 == IF hits = {} THEN l
              ELSE list_remove(l, l[CHOOSE i \in hits : \A k \in hits : i <= k])
    IN  [library |-> l2, file |-> save_library(l2), saved |-> TRUE,
         ret |-> hits # {}]

\* remove_book: at the first book whose lowered title equals the lowered
\* argument, list.remove(book), save and return True; else return False.
\* f is the file as it stands, kept when nothing is saved.
remove_book(l, f, title) ==
    LET hits == {i \in 1..Len(l) : str_lower(l[i][K_title]) = str_lower(title)}
    IN  IF hits = {}
        THEN [library |-> l, file |-> f, saved |-> FALSE, ret |-> FALSE]
        ELSE LET first == CHOOSE i \in hits : \A k \in hits : i <= k
                 l2 == list_remove(l, l[first])
             IN  [library |-> l2, file |-> save_library(l2), saved |-> TRUE,
                  ret |-> TRUE]

\* A variant of search_books that looks at titles only.
search_books_titles(l, query) ==
    LET keep(b) == str_in(str_lower(query), str_lower(b[K_title]))
    IN  SelectSeq(l, keep)

\* search_books: the list comprehension, in list order.
RECURSIVE search_books(_, _)
search_books(l, query) ==
    IF Len(l) = 0 THEN <<>>
    ELSE LET book == l[1]
             keep == \/ str_in(str_lower(query), str_lower(book[K_title]))
                     \/ str_in(str_lower(query), str_lower(book[K_author]))
         IN  (IF keep THEN <<book>> ELSE <<>>) \o search_books(Tail(l), query)

\* Numbers that are not integers are kept as reduced fractions num / den.
RECURSIVE Gcd(_, _)
Gcd(a, b) == IF b = 0 THEN a ELSE Gcd(b, a % b)

Frac(n, d) ==
    LET g == Gcd(n, d)
    IN  [err |-> FALSE, num |-> n \div g, den |-> d \div g]

\* Python's a / b: ZeroDivisionError when b is 0.
true_div(a, b) ==
    IF b = 0 THEN [err |-> TRUE, num |-> 0, den |-> 1] ELSE Frac(a, b)

\* x * n for a fraction x.
frac_mul(x, n) == IF x.err THEN x ELSE Frac(x.num * n, x.den)

\* A variant of calculate_statistics that divides without looking at the total.
calculate_statistics_unguarded(l) ==
    LET total_books == Len(l)
        read_books == Cardinality({i \in 1..Len(l) : l[i][K_read]})
        read_percentage == frac_mul(true_div(read_books, total_books), 100)
    IN  [raised |-> IF read_percentage.err THEN "ZeroDivisionError" ELSE "none",
         total |-> total_books,
         pct |-> [num |-> read_percentage.num, den |-> read_percentage.den]]

\* calculate_statistics: (total_books, read_percentage); the division is
\* evaluated only when total_books > 0.
calculate_statistics(l) ==
    LET total_books == Len(l)
        read_books == Cardinality({i \in 1..Len(l) : l[i][K_read]})
        read_percentage ==
            IF total_books > 0
            THEN frac_mul(true_div(read_books, total_books), 100)
            ELSE Frac(0, 1)
    IN  [raised |-> IF read_percentage.err THEN "ZeroDivisionError" ELSE "none",
         total |-> total_books,
         pct |-> [num |-> read_percentage.num, den |-> read_percentage.den]]

\* ---------------------------------------------------- the user's inputs
\* What the Add Book form is filled with: a title in two spellings, the
\* same title with another author, another book, and the empty form.
FormInputs ==
    { [title |-> <<"D", "u">>, author |-> <<"u", "D">>, year |-> 1965,
       genre |-> <<"d">>, read |-> TRUE],
      [title |-> <<"d", "U">>, author |-> <<"u", "D">>, year |-> 1965,
       genre |-> <<"d">>, read |-> FALSE],
      [title |-> <<"D", "u">>, author |-> <<"d">>, year |-> 0,
       genre |-> <<>>, read |-> FALSE],
      [title |-> <<"U">>, author |-> <<"D", "d">>, year |-> 2100,
       genre |-> <<"U">>, read |-> TRUE],
      [title |-> <<>>, author |-> <<>>, year |-> 0,
       genre |-> <<>>, read |-> FALSE] }

\* The titles typed into Remove Book; the last two are titles of no book.
RemoveTitles ==
    { <<"d", "u">>, <<"D", "u">>, <<"u">>, <<>>, <<"d">>, <<"D", "u", "u">> }

\* The queries typed into Search Books.
Queries ==
    { <<>>, <<"U">>, <<"d", "d">>, <<"U", "d">>, <<"D", "U">>, <<"d">>,
      <<"d", "u", "d">> }

\* The menu entries that call the store.
Menu == {"add", "remove", "search", "stats"}

\* The two script runs that share the file in the concurrent setting, and
\* the one run of the sequential setting.
Procs == {1, 2}
Single == {1}

\* The concurrent setting's inputs and the longest library it builds.
MaxRaceLen == 2
RaceInputs == {f \in FormInputs : f.read}
RaceTitles == { <<"d", "u">>, <<"u">> }
RaceMenu == {"add", "remove"}

AsDict(f) == book_dict(f.title, f.author, f.year, f.genre, f.read)

\* The lists of at most n books made of the given form inputs.
Libraries(inputs, n) ==
    UNION { [1..k -> {AsDict(f) : f \in inputs}] : k \in 0..n }

\* Texts the decoder rejects: every proper prefix of a saved one-book
\* library (a write cut short, the empty file), data after the list, a
\* comma with no item after it.
OneBook == json_dump(<< AsDict(CHOOSE f \in FormInputs : f.year = 2100) >>)
MalformedTexts ==
    { SubSeq(OneBook, 1, k) : k \in 0..(Len(OneBook) - 1) }
        \cup { OneBook \o <<Punct("]")>>,
               SubSeq(OneBook, 1, Len(OneBook) - 1) \o <<Punct(","), Punct("]")>>,
               <<Punct("["), Punct(","), Punct("]")>> }

\* The file's content when the program starts.
InitFiles ==
    {Absent, Undecodable}
        \cup {TextFile(json_dump(l)) : l \in Libraries(FormInputs, MaxLen)}
        \cup {TextFile(t) : t \in MalformedTexts}

RaceFiles ==
    {Absent} \cup {TextFile(json_dump(l)) : l \in Libraries(RaceInputs, MaxRaceLen)}

\* ------------------------------------------------------- what a run did
NoForm ==
    [title |-> <<>>, author |-> <<>>, year |-> 0, genre |-> <<>>, read |-> FALSE]

\* The record of a run: the file it loaded from (file0), the handler that
\* ran (op), the library it was given (pre), its inputs (form, text), what it
\* returned (found, results, total, pct), the exception that ended it
\* (raised), whether it called save_library (saved), and whether another run
\* saved between its load and its save (raced).
NoEv ==
    [op |-> "none", file0 |-> Absent, pre |-> <<>>, form |-> NoForm,
     text |-> <<>>, found |-> FALSE, results |-> <<>>, total |-> 0,
     pct |-> [num |-> 0, den |-> 1], raised |-> "none", saved |-> FALSE,
     raced |-> FALSE]

\* The last save_library call: the run that made it, the list it was given
\* and the file content it replaced.
NoSave == [by |-> 0, lib |-> <<>>, over |-> Absent]

TypeOK ==
    /\ pc \in [Procs -> {"idle", "loaded", "done", "raised"}]
    /\ menu \in [Procs -> Menu \cup {"none"}]
    /\ dirty \in [Procs -> BOOLEAN]
    /\ file.kind \in {"absent", "bytes", "text"}
    /\ last_save.by \in Procs \cup {0}

StartState ==
    /\ library = [p \in Procs |-> <<>>]
    /\ pc = [p \in Procs |-> "idle"]
    /\ menu = [p \in Procs |-> "none"]
    /\ ev = [p \in Procs |-> NoEv]
    /\ last_save = NoSave
    /\ dirty = [p \in Procs |-> FALSE]

Init == file \in InitFiles /\ StartState

InitRace == file \in RaceFiles /\ StartState

\* A save by p: the runs that loaded and have not yet run their handler now
\* hold a library older than the file.
Dirtied(p) ==
    [q \in Procs |-> IF q # p /\ pc[q] = "loaded" THEN TRUE ELSE dirty[q]]

\* ------------------------------------------------------------ script run
\* A script run starts: the menu entry is read, then library = load_library().
\* An exception load_library does not catch ends the run.  (Add Book is
\* chosen only while the loaded library is shorter than maxlen.)
Load(p, menus, maxlen) ==
    /\ pc[p] # "loaded"
    /\ \E m \in menus :
        LET r == load_library(file)
        IN  /\ (m = "add") => (Len(r.val) < maxlen)
            /\ menu' = [menu EXCEPT ![p] = m]
            /\ library' = [library EXCEPT ![p] = r.val]
            /\ pc' = [pc EXCEPT ![p] = IF r.raised = "none" THEN "loaded" ELSE "raised"]
            /\ ev' = [ev EXCEPT ![p] = [NoEv EXCEPT !.op = "load", !.file0 = file,
                                                    !.raised = r.raised]]
            /\ dirty' = [dirty EXCEPT ![p] = FALSE]
            /\ UNCHANGED <<file, last_save>>

\* A variant of AddBook that adds to the list the file holds at that moment
\* instead of the list the run loaded.
AddBookReloading(p, inputs) ==
    /\ pc[p] = "loaded" /\ menu[p] = "add"
    /\ \E f \in inputs :
        LET r == add_book(load_library(file).val, f.title, f.author, f.year,
                          f.genre, f.read)
        IN  /\ library' = [library EXCEPT ![p] = r.library]
            /\ file' = r.file
            /\ last_save' = [by |-> p, lib |-> r.library, over |-> file]
            /\ dirty' = Dirtied(p)
            /\ ev' = [ev EXCEPT ![p] = [@ EXCEPT !.op = "add", !.pre = library[p],
                                                 !.form = f, !.saved = r.saved,
                                                 !.raced = dirty[p]]]
            /\ pc' = [pc EXCEPT ![p] = "done"]
            /\ UNCHANGED menu

\* The Add Book form is submitted: add_book(library, ...).
AddBook(p, inputs) ==
    /\ pc[p] = "loaded" /\ menu[p] = "add"
    /\ \E f \in inputs :
        LET r == add_book(library[p], f.title, f.author, f.year, f.genre, f.read)
        IN  /\ library' = [library EXCEPT ![p] = r.library]
            /\ file' = r.file
            /\ last_save' = [by |-> p, lib |-> r.library, over |-> file]
            /\ dirty' = Dirtied(p)
            /\ ev' = [ev EXCEPT ![p] = [@ EXCEPT !.op = "add", !.pre = library[p],
                                                 !.form = f, !.saved = r.saved,
                                                 !.raced = dirty[p]]]
            /\ pc' = [pc EXCEPT ![p] = "done"]
            /\ UNCHANGED menu

\* The Remove Book button is pressed: remove_book(library, title).
RemoveBook(p, titles) ==
    /\ pc[p] = "loaded" /\ menu[p] = "remove"
    /\ \E title \in titles :
        LET r == remove_book(library[p], file, title)
        IN  /\ library' = [library EXCEPT ![p] = r.library]
            /\ file' = r.file
            /\ last_save' = IF r.saved THEN [by |-> p, lib |-> r.library, over |-> file]
                            ELSE last_save
            /\ dirty' = IF r.saved THEN Dirtied(p) ELSE dirty
            /\ ev' = [ev EXCEPT ![p] = [@ EXCEPT !.op = "remove", !.pre = library[p],
                                                 !.text = title, !.found = r.ret,
                                                 !.saved = r.saved,
                                                 !.raced = dirty[p]]]
            /\ pc' = [pc EXCEPT ![p] = "done"]
            /\ UNCHANGED menu

\* The Search button is pressed: results = search_books(library, query).
SearchBooks(p) ==
    /\ pc[p] = "loaded" /\ menu[p] = "search"
    /\ \E query \in Queries :
        /\ ev' = [ev EXCEPT ![p] = [@ EXCEPT !.op = "search", !.pre = library[p],
                                             !.text = query,
                                             !.results = search_books(library[p], query)]]
        /\ pc' = [pc EXCEPT ![p] = "done"]
        /\ UNCHANGED <<file, library, menu, last_save, dirty>>

\* The Statistics page: total_books, read_percentage = calculate_statistics(library).
Statistics(p) ==
    /\ pc[p] = "loaded" /\ menu[p] = "stats"
    /\ LET r == calculate_statistics(library[p])
       IN  /\ ev' = [ev EXCEPT ![p] = [@ EXCEPT !.op = "stats", !.pre = library[p],
                                                !.total = r.total, !.pct = r.pct,
                                                !.raised = r.raised]]
           /\ pc' = [pc EXCEPT ![p] = IF r.raised = "none" THEN "done" ELSE "raised"]
    /\ UNCHANGED <<file, library, menu, last_save, dirty>>

\* One script run at a time (the sequential setting).
Next ==
    \E p \in Single :
        \/ Load(p, Menu, MaxLen)
        \/ AddBook(p, FormInputs)
        \/ RemoveBook(p, RemoveTitles)
        \/ SearchBooks(p)
        \/ Statistics(p)

Spec == Init /\ [][Next]_vars

\* Two script runs on the same file, their steps interleaved.
NextRace ==
    \E p \in Procs :
        \/ Load(p, RaceMenu, MaxRaceLen)
        \/ AddBook(p, RaceInputs)
        \/ RemoveBook(p, RaceTitles)

SpecRace == InitRace /\ [][NextRace]_vars

\* ------------------------------------------------- vocabulary of the claims
\* Two texts equal up to letter case.
SameIgnoringCase(a, b) ==
    Len(a) = Len(b) /\ \A i \in 1..Len(a) : Lower(a[i]) = Lower(b[i])

\* q occurs in s up to letter case.
OccursIgnoringCase(q, s) ==
    \E k \in 0..(Len(s) - Len(q)) : \A i \in 1..Len(q) : Lower(s[k + i]) = Lower(q[i])

\* The positions of the books of l titled t, and the first of them.
MatchesAt(l, t) == {i \in 1..Len(l) : SameIgnoringCase(l[i][K_title], t)}
FirstOf(I) == CHOOSE i \in I : \A j \in I : i <= j

\* l without its k-th record.
Without(l, k) == [i \in 1..(Len(l) - 1) |-> IF i < k THEN l[i] ELSE l[i + 1]]

\* The record holds exactly the five values of the form.
HoldsForm(b, f) ==
    /\ DOMAIN b = {K_title, K_author, K_year, K_genre, K_read}
    /\ b[K_title] = f.title /\ b[K_author] = f.author /\ b[K_year] = f.year
    /\ b[K_genre] = f.genre /\ b[K_read] = f.read

\* The storage file holds the list l, record for record.
FileHolds(l) ==
    /\ file.kind = "text"
    /\ json_load(file.text).ok
    /\ json_load(file.text).val = l

\* The file is absent or its content cannot be read as JSON text.
Unreadable(f) ==
    \/ f.kind \in {"absent", "bytes"}
    \/ f.kind = "text" /\ ~json_load(f.text).ok

\* The run changed the library: an Add, or a Remove that found its title.
Mutated(e) == e.op = "add" \/ (e.op = "remove" /\ e.found)

\* What the run's own mutation makes of the library it loaded.
OwnResult(e) ==
    IF e.op = "add" THEN e.pre \o << AsDict(e.form) >>
    ELSE Without(e.pre, FirstOf(MatchesAt(e.pre, e.text)))

Range(l) == {l[i] : i \in 1..Len(l)}

\* ------------------------------------------------------------------ C1
\* C1: right after a mutation (an Add, or a Remove that found a match) the
\* storage file holds the in-memory library, record for record and in the
\* same order.
C1_DiskEqualsMemoryAfterMutation ==
    \A p \in Procs :
        (pc[p] = "done" /\ Mutated(ev[p])) => FileHolds(library[p])

\* A Remove found its title among several books, after an earlier save.
C1_Witness ==
    \E p \in Procs :
        /\ pc[p] = "done" /\ ev[p].op = "remove" /\ ev[p].found
        /\ Len(library[p]) >= 2
        /\ last_save.by = p /\ ev[p].file0.kind = "text"

\* ------------------------------------------------------------------ C3
\* C3: a Remove whose title matches some record case-insensitively returns
\* true, removes exactly the first such record (every other record, later
\* ones of the same title included, stays, in the same order), so the length
\* drops by exactly 1, and saves the result.
C3_RemoveFirstMatch ==
    \A p \in Procs :
        (ev[p].op = "remove" /\ MatchesAt(ev[p].pre, ev[p].text) # {}) =>
            /\ ev[p].found /\ pc[p] = "done"
            /\ Len(library[p]) = Len(ev[p].pre) - 1
            /\ library[p] = Without(ev[p].pre, FirstOf(MatchesAt(ev[p].pre, ev[p].text)))
            /\ FileHolds(library[p])

\* Two different records match the title, neither at the head of the list,
\* and the title is typed in another case than the records carry.
C3_Witness ==
    \E p \in Procs :
        /\ ev[p].op = "remove" /\ ev[p].found
        /\ MatchesAt(ev[p].pre, ev[p].text) = {2, 3}
        /\ ev[p].pre[2] # ev[p].pre[3]
        /\ ev[p].pre[2][K_title] # ev[p].text

\* ------------------------------------------------------------------ C4
\* C4: a Remove whose title matches no record returns false and leaves the
\* in-memory list and the storage file as they were (nothing is saved).
C4_RemoveNoMatch ==
    \A p \in Procs :
        (ev[p].op = "remove" /\ MatchesAt(ev[p].pre, ev[p].text) = {}) =>
            /\ ~ev[p].found
            /\ library[p] = ev[p].pre
            /\ ~ev[p].saved
            /\ file = ev[p].file0

\* A Remove of a title no book of a two-book library carries.
C4_Witness ==
    \E p \in Procs :
        /\ pc[p] = "done" /\ ev[p].op = "remove" /\ ~ev[p].found
        /\ Len(ev[p].pre) >= 2 /\ ev[p].text # <<>>

\* ------------------------------------------------------------------ C5
\* C5: an Add lengthens the list by exactly 1, a record of the same title
\* being present or not: the new record is last and holds exactly the five
\* values supplied, the records present before keep their values and order,
\* and the extended list is saved.
C5_AddAppends ==
    \A p \in Procs :
        ev[p].op = "add" =>
            /\ pc[p] = "done"
            /\ Len(library[p]) = Len(ev[p].pre) + 1
            /\ SubSeq(library[p], 1, Len(ev[p].pre)) = ev[p].pre
            /\ HoldsForm(library[p][Len(library[p])], ev[p].form)
            /\ FileHolds(library[p])

\* An Add of a record the library already holds.
C5_Witness ==
    \E p \in Procs :
        /\ ev[p].op = "add" /\ pc[p] = "done"
        /\ \E i \in 1..Len(ev[p].pre) : HoldsForm(ev[p].pre[i], ev[p].form)

\* ------------------------------------------------------------------ C2
\* C2: when two runs both load before either saves and both mutate, the file
\* ends up holding what the run that saved last makes of the library it
\* loaded, and nothing of the other run's change: a book only the other run
\* added is gone.  Neither run ends with an exception.
C2_LastWriterWins ==
    \A p, q \in Procs :
        ( /\ p # q
          /\ pc[p] = "done" /\ pc[q] = "done"
          /\ Mutated(ev[p]) /\ Mutated(ev[q])
          /\ ev[p].raced /\ last_save.by = p ) =>
            /\ FileHolds(OwnResult([ev[p] EXCEPT !.pre = load_library(ev[p].file0).val]))
            /\ ev[p].raised = "none" /\ ev[q].raised = "none"
            /\ ( /\ ev[q].op = "add"
                 /\ AsDict(ev[q].form) \notin Range(ev[p].pre)
                 /\ ~(ev[p].op = "add" /\ ev[p].form = ev[q].form) )
               => AsDict(ev[q].form) \notin Range(json_load(file.text).val)

\* Both runs loaded the same content, each added a different book, and the
\* second save has been made.
C2_Witness ==
    \E p, q \in Procs :
        /\ p # q /\ pc[p] = "done" /\ pc[q] = "done"
        /\ ev[p].op = "add" /\ ev[q].op = "add" /\ ev[p].form # ev[q].form
        /\ ev[p].file0 = ev[q].file0
        /\ ev[p].raced /\ last_save.by = p

\* ------------------------------------------------------------------ C6
\* C6: a Load that follows a Save returns the list that was saved, field for
\* field and in the same order, whatever the file held before the Save.
C6_RoundTrip ==
    \A p \in Procs :
        (ev[p].op = "load" /\ last_save.by # 0) =>
            /\ pc[p] = "loaded"
            /\ library[p] = last_save.lib

\* A Load after a Save that replaced content the decoder rejects by a list
\* of two books.
C6_Witness ==
    \E p \in Procs :
        /\ ev[p].op = "load" /\ pc[p] = "loaded" /\ last_save.by # 0
        /\ last_save.over.kind = "text" /\ ~json_load(last_save.over.text).ok
        /\ Len(library[p]) >= 1
        /\ \E i \in 1..Len(library[p]) : ~library[p][i][K_read]

\* ------------------------------------------------------------------ C7
\* C7: a Load from a file that is absent, or whose content is malformed,
\* returns the empty list and raises nothing.
C7_LoadFailsSoft ==
    \A p \in Procs :
        (ev[p].op = "load" /\ Unreadable(ev[p].file0)) =>
            /\ ev[p].raised = "none"
            /\ pc[p] = "loaded"
            /\ library[p] = <<>>

\* ------------------------------------------------------------------ C8
\* C8: Search returns exactly the records whose title or author contains the
\* query up to letter case, in their order in the library, none twice and
\* none altered; the empty query returns the whole library.
C8_SearchExact ==
    \A p \in Procs :
        ev[p].op = "search" =>
            LET l == ev[p].pre
                res == ev[p].results
                I == {i \in 1..Len(l) :
                        \/ OccursIgnoringCase(ev[p].text, l[i][K_title])
                        \/ OccursIgnoringCase(ev[p].text, l[i][K_author])}
                Nth(k) == CHOOSE i \in I : Cardinality({j \in I : j <= i}) = k
            IN  /\ Len(res) = Cardinality(I)
                /\ \A k \in 1..Len(res) : res[k] = l[Nth(k)]
                /\ (ev[p].text = <<>>) => (res = l)
                /\ library[p] = l
                /\ file = ev[p].file0

\* A query in capitals that some book matches by its author only while
\* another book does not match at all.
C8_Witness ==
    \E p \in Procs :
        /\ ev[p].op = "search" /\ ev[p].text # str_lower(ev[p].text)
        /\ Len(ev[p].results) >= 1 /\ Len(ev[p].results) < Len(ev[p].pre)
        /\ \E k \in 1..Len(ev[p].results) :
              ~OccursIgnoringCase(ev[p].text, ev[p].results[k][K_title])

\* ------------------------------------------------------------------ C9
RECURSIVE ReadCount(_)
ReadCount(l) ==
    IF l = <<>> THEN 0 ELSE (IF l[1][K_read] THEN 1 ELSE 0) + ReadCount(Tail(l))

\* C9: Statistics returns the number of records and read_count / total * 100;
\* for the empty library it returns (0, 0) and no division error; the
\* percentage always lies between 0 and 100.
C9_Statistics ==
    \A p \in Procs :
        ev[p].op = "stats" =>
            /\ ev[p].raised = "none" /\ pc[p] = "done"
            /\ ev[p].total = Len(ev[p].pre)
            /\ ev[p].pct.den > 0
            /\ ev[p].pct.num * Len(ev[p].pre) = 100 * ReadCount(ev[p].pre) * ev[p].pct.den
            /\ (Len(ev[p].pre) = 0) => (ev[p].pct.num = 0)
            /\ 0 <= ev[p].pct.num /\ ev[p].pct.num <= 100 * ev[p].pct.den

\* Statistics of three books of which some, not all, are read.
C9_Witness ==
    \E p \in Procs :
        /\ ev[p].op = "stats" /\ pc[p] = "done"
        /\ ev[p].total = 3 /\ ev[p].pct.den = 3

\* ----------------------------------------------------------------- C10
\* C10: a run that starts from an absent or unparsable file and in which
\* Add Book is submitted leaves the file holding exactly one record, the
\* new one.
C10_AddAfterUnreadable ==
    \A p \in Procs :
        (menu[p] = "add" /\ pc[p] \in {"done", "raised"} /\ Unreadable(ev[p].file0)) =>
            /\ ev[p].op = "add"
            /\ FileHolds(<< AsDict(ev[p].form) >>)

====
